---- MODULE Spec2Model ----
(***************************************************************************)
(* Model of the configuration edit-verify engine of pyproject-template:    *)
(* hooks/utils/__init__.py (reader, verification primitives, Config) and   *)
(* hooks/post_gen_project.py (the field rules, ProjectConfig, Project).    *)
(*                                                                         *)
(* Texts are TLA+ strings; a file is a sequence of written lines; a parsed *)
(* value carries the 1-based line it was written on.                       *)
(***************************************************************************)
EXTENDS Integers, Sequences, FiniteSets, TLC

(***************************************************************************)
(* Python str primitives used by the code                                  *)
(***************************************************************************)

\* Body(value), with value evaluated once whatever Body does with it.
Bind(value, Body(_)) == CHOOSE r \in { Body(v) : v \in {value} } : TRUE

Ch(s, i) == SubSeq(s, i, i)

UpperChars == "ABCDEFGHIJKLMNOPQRSTUVWXYZ"

LowerChars == "abcdefghijklmnopqrstuvwxyz"

DigitChars == "0123456789"

CharsOf(s) == { Ch(s, i) : i \in 1..Len(s) }

Alpha == CharsOf(UpperChars) \cup CharsOf(LowerChars)

Digit == CharsOf(DigitChars)

Space == {" ", "\t"}

IndexIn(s, c) == CHOOSE i \in 1..Len(s) : Ch(s, i) = c

\* str.lower()
RECURSIVE Lower(_)
Lower(s) ==
    IF Len(s) = 0 THEN ""
    ELSE (IF Ch(s, 1) \in CharsOf(UpperChars)
            THEN Ch(LowerChars, IndexIn(UpperChars, Ch(s, 1))) ELSE Ch(s, 1)) \o Lower(Tail(s))

RECURSIVE LStrip(_)
LStrip(s) == IF Len(s) > 0 /\ Ch(s, 1) \in Space THEN LStrip(Tail(s)) ELSE s

RECURSIVE RStripLen(_, _)
RStripLen(s, n) == IF n > 0 /\ Ch(s, n) \in Space THEN RStripLen(s, n - 1) ELSE n

\* str.strip()
Strip(s) == Bind(LStrip(s), LAMBDA t : SubSeq(t, 1, RStripLen(t, Len(t))))

\* The length of the longest prefix of s without a character of seps.
RECURSIVE SpanTo(_, _)
SpanTo(s, seps) ==
    IF Len(s) = 0 \/ Ch(s, 1) \in seps THEN 0 ELSE 1 + SpanTo(Tail(s), seps)

\* str.split(): the maximal runs of non-whitespace characters.
RECURSIVE SplitWs(_)
SplitWs(s) ==
    Bind(LStrip(s), LAMBDA t :
      Bind(SpanTo(t, Space), LAMBDA n :
        IF Len(t) = 0 THEN << >>
        ELSE <<SubSeq(t, 1, n)>> \o SplitWs(SubSeq(t, n + 1, Len(t)))))

\* str.split(sep) for a one-character sep: empty parts are kept.
RECURSIVE SplitOn(_, _)
SplitOn(s, sep) ==
    Bind(s, LAMBDA t :
      Bind(SpanTo(t, {sep}), LAMBDA n :
        IF n = Len(t) THEN <<t>>
        ELSE <<SubSeq(t, 1, n)>> \o SplitOn(SubSeq(t, n + 2, Len(t)), sep)))

\* sep.join(parts)
RECURSIVE Join(_, _)
Join(parts, sep) ==
    IF Len(parts) = 0 THEN ""
    ELSE IF Len(parts) = 1 THEN parts[1]
    ELSE parts[1] \o sep \o Join(Tail(parts), sep)

AllIn(s, set) == \A i \in 1..Len(s) : Ch(s, i) \in set

\* int(s) of a string of decimal digits
RECURSIVE ToIntTo(_, _)
ToIntTo(s, n) ==
    IF n = 0 THEN 0 ELSE 10 * ToIntTo(s, n - 1) + (IndexIn(DigitChars, Ch(s, n)) - 1)

ToInt(s) == ToIntTo(s, Len(s))

\* str(n) of an integer
RECURSIVE NatStr(_)
NatStr(n) == IF n < 10 THEN Ch(DigitChars, n + 1) ELSE NatStr(n \div 10) \o Ch(DigitChars, (n % 10) + 1)

IntStr(n) == IF n < 0 THEN "-" \o NatStr(0 - n) ELSE NatStr(n)

\* a < b for str: by code points, a proper prefix first
RECURSIVE StrLess(_, _)
StrLess(a, b) ==
    IF Len(b) = 0 THEN FALSE
    ELSE IF Len(a) = 0 THEN TRUE
    ELSE IF Ch(a, 1) = Ch(b, 1) THEN StrLess(Tail(a), Tail(b))
    \* the characters of the texts in code point order (str comparison)
    ELSE \E order \in {" -.0123456789:ABCDEFGHIJKLMNOPQRSTUVWXYZ_abcdefghijklmnopqrstuvwxyz"} :
            IndexIn(order, Ch(a, 1)) < IndexIn(order, Ch(b, 1))

\* sorted(items) for a list of str
RECURSIVE InsertStr(_, _)
InsertStr(sorted, x) ==
    Bind(sorted, LAMBDA done :
      IF Len(done) = 0 THEN <<x>>
      ELSE IF StrLess(x, done[1]) THEN <<x>> \o done
      ELSE <<done[1]>> \o InsertStr(Tail(done), x))

\* sorted(items) is SortedTo(items, Len(items))
RECURSIVE SortedTo(_, _)
SortedTo(items, n) == IF n = 0 THEN << >> ELSE InsertStr(SortedTo(items, n - 1), items[n])

(***************************************************************************)
(* utils: sanitize and the patterns                                        *)
(***************************************************************************)

sanitize(sinput) == Join(SplitWs(sinput), " ")

\* re.match(WORD_RE, s)
MatchWORD(s) == Len(s) >= 3 /\ Ch(s, 1) \in Alpha /\ AllIn(Tail(s), Alpha \cup Digit \cup {"-", "_"})

\* re.match(KWORD_RE, s): words separated by single spaces
MatchKWORD(s) ==
    LET parts == SplitOn(s, " ") IN \A i \in 1..Len(parts) : MatchWORD(parts[i])

\* re.match(IDEN_RE, s)
MatchIDEN(s) == Len(s) >= 3 /\ Ch(s, 1) \in Alpha /\ AllIn(Tail(s), Alpha \cup Digit \cup {"_"})

\* re.match(PYVER_RE, s)
MatchPYVER(s) == Len(s) >= 3 /\ SubSeq(s, 1, 2) = "3." /\ AllIn(SubSeq(s, 3, Len(s)), Digit)

Match(regexp, s) ==
    CASE regexp = "WORD_RE" -> MatchWORD(s)
      [] regexp = "KWORD_RE" -> MatchKWORD(s)
      [] regexp = "IDEN_RE" -> MatchIDEN(s)
      [] regexp = "PYVER_RE" -> MatchPYVER(s)
      [] OTHER -> TRUE

(***************************************************************************)
(* Python values as the reader and the rules produce them.  line is the    *)
(* `line` attribute set by the reader's wrappers; NoLine stands for a      *)
(* plain object that has no such attribute (getattr(value, "line", -1)).   *)
(***************************************************************************)

NoLine == -1

MkStr(s, line) == [t |-> "str", s |-> s, n |-> 0, b |-> FALSE, items |-> << >>, line |-> line]

MkInt(n, line) == [t |-> "int", s |-> "", n |-> n, b |-> FALSE, items |-> << >>, line |-> line]

MkBool(b) == [t |-> "bool", s |-> "", n |-> 0, b |-> b, items |-> << >>, line |-> NoLine]

MkList(items, line) == [t |-> "list", s |-> "", n |-> 0, b |-> FALSE, items |-> items, line |-> line]

\* NullType(): the wrapper of yaml null
MkNull(line) == [t |-> "null", s |-> "", n |-> 0, b |-> FALSE, items |-> << >>, line |-> line]

\* Python None: no document at all
PyNone == [t |-> "none", s |-> "", n |-> 0, b |-> FALSE, items |-> << >>, line |-> NoLine]

\* A dict in insertion order; every key is a str carrying its own line.
\* str(value) as an f-string prints it
RECURSIVE PyStr(_)
PyStr(v) ==
    CASE v.t = "str" -> v.s
      [] v.t = "int" -> IntStr(v.n)
      [] v.t = "float" -> v.s
      [] v.t = "bool" -> IF v.b THEN "True" ELSE "False"
      [] v.t = "null" -> "null"
      [] v.t = "none" -> "None"
      [] OTHER -> "[...]"

HasKey(config, key) == \E i \in 1..Len(config.items) : config.items[i].key = key

KeyIndex(config, key) == CHOOSE i \in 1..Len(config.items) : config.items[i].key = key

\* config[key] of a key the dict holds
GetItem(config, key) == config.items[KeyIndex(config, key)].val

\* config[key] = val of a key the dict holds: the key object and its place stay
SetItem(config, key, val) ==
    [config EXCEPT !.items = [config.items EXCEPT ![KeyIndex(config, key)].val = val]]

(***************************************************************************)
(* The text of the file: a sequence of written lines.                      *)
(*   start    ---                                                          *)
(*   blank, comment                                                        *)
(*   key      key: [token]                                                 *)
(*   item     - [token]            (an element of a block sequence)        *)
(*   value    token                (a scalar on a line below its key)      *)
(*   bad      a line the yaml scanner or parser rejects                    *)
(*   ctrl     a line holding a character yaml's reader rejects             *)
(* A token is a scalar as written: quoted or plain.                        *)
(***************************************************************************)

Tok(q, s) == [q |-> q, s |-> s]

Quoted(s) == Tok(TRUE, s)

Plain(s) == Tok(FALSE, s)

NoTok == Tok(FALSE, "")

Ln(k, key, tok) == [k |-> k, key |-> key, tok |-> tok]

StartLn == Ln("start", "", NoTok)

BlankLn == Ln("blank", "", NoTok)

CommentLn == Ln("comment", "", NoTok)

BadLn == Ln("bad", "", NoTok)

CtrlLn == Ln("ctrl", "", NoTok)

KeyLn(key, tok) == Ln("key", key, tok)

ItemLn(tok) == Ln("item", "", tok)

ValueLn(tok) == Ln("value", "", tok)

(***************************************************************************)
(* yaml.SafeLoader as load_yaml drives it: the resolver's implicit types,  *)
(* the composer's errors, and the wrapped constructors.                    *)
(***************************************************************************)

\* yaml 1.1 bool: yes|no|true|false|on|off, as written, Capitalized or UPPER
Capitalized(w) == Ch(UpperChars, IndexIn(LowerChars, Ch(w, 1))) \o Tail(w)

RECURSIVE Upper(_)
Upper(s) ==
    IF Len(s) = 0 THEN ""
    ELSE (IF Ch(s, 1) \in CharsOf(LowerChars)
          THEN Ch(UpperChars, IndexIn(LowerChars, Ch(s, 1))) ELSE Ch(s, 1)) \o Upper(Tail(s))

IsYamlBool(s) == \E w \in {"yes", "no", "true", "false", "on", "off"} : s \in {w, Capitalized(w), Upper(w)}

IsYamlNull(s) == s \in {"", "~", "null", "Null", "NULL"}

IsYamlInt(s) ==
    \/ Len(s) >= 1 /\ AllIn(s, Digit)
    \/ Len(s) >= 2 /\ Ch(s, 1) \in {"-", "+"} /\ AllIn(Tail(s), Digit)

YamlIntOf(s) ==
    IF Ch(s, 1) = "-" THEN 0 - ToInt(Tail(s))
    ELSE IF Ch(s, 1) = "+" THEN ToInt(Tail(s)) ELSE ToInt(s)

IsYamlFloat(s) ==
    LET parts == SplitOn(s, ".")
    IN  /\ Len(parts) = 2
        /\ Len(parts[1]) >= 1 /\ AllIn(parts[1], Digit)
        /\ AllIn(parts[2], Digit)

\* The tag the resolver gives a scalar token.
TagOf(tok) ==
    IF tok.q THEN "str"
    ELSE IF tok.s = "[]" THEN "seq"
    ELSE IF IsYamlNull(tok.s) THEN "null"
    ELSE IF IsYamlBool(tok.s) THEN "bool"
    ELSE IF IsYamlInt(tok.s) THEN "int"
    ELSE IF IsYamlFloat(tok.s) THEN "float"
    ELSE "str"

\* wrap_yaml_obj on a constructed scalar: a subclass of the object's class is
\* made to carry the line.  bool is not an acceptable base type, so type()
\* raises TypeError for a yaml bool; None becomes NullType.
wrap_yaml_obj(tok, line) ==
    LET tag == TagOf(tok)
    IN  CASE tag = "null" -> [st |-> "ok", val |-> MkNull(line)]
          [] tag = "bool" -> [st |-> "exc", val |-> MkNull(line)]
          [] tag = "int" -> [st |-> "ok", val |-> MkInt(YamlIntOf(tok.s), line)]
          [] tag = "float" -> [st |-> "ok", val |-> [MkStr(tok.s, line) EXCEPT !.t = "float"]]
          [] tag = "seq" -> [st |-> "ok", val |-> MkList(<< >>, line)]
          [] OTHER -> [st |-> "ok", val |-> MkStr(tok.s, line)]

KeyLines(text) == { i \in 1..Len(text) : text[i].k = "key" }

SetMin(S) == CHOOSE m \in S : \A o \in S : m <= o

\* The key line a body line belongs to, 0 for a line above every key.
OwnerOf(text, j) ==
    LET ks == { i \in KeyLines(text) : i < j } IN IF ks = {} THEN 0 ELSE CHOOSE m \in ks : \A o \in ks : o <= m

\* The body lines (items, a scalar below the key) of the key written on line i.
BodyOf(text, i) == { j \in 1..Len(text) : text[j].k \in {"item", "value"} /\ OwnerOf(text, j) = i }

\* The lines at which the scanner, parser or composer stops.
SyntaxErrorLines(text) ==
    { j \in 1..Len(text) :
        \/ text[j].k = "bad"
        \/ /\ text[j].k = "start"
           /\ \E i \in 1..(j - 1) : text[i].k \in {"key", "item", "value"}
        \/ /\ text[j].k = "key"
           /\ OwnerOf(text, j) = 0
           /\ \E i \in 1..(j - 1) : text[i].k \in {"item", "value"}
        \/ /\ text[j].k \in {"item", "value"}
           /\ LET o == OwnerOf(text, j)
                  first == SetMin(BodyOf(text, o))
              IN  \/ o > 0 /\ text[o].tok # NoTok
                  \/ j # first /\ text[first].k = "value"
                  \/ j # first /\ text[j].k = "value" }

\* The node written for a key (or, with i = 0, at the top of the document):
\* [st, val] of its construction.
RECURSIVE ConstructItems(_, _)
ConstructItems(text, lines) ==
    IF lines = {} THEN [st |-> "ok", items |-> << >>]
    ELSE Bind(SetMin(lines), LAMBDA j :
           Bind(wrap_yaml_obj(text[j].tok, j), LAMBDA head :
             IF head.st # "ok" THEN [st |-> head.st, items |-> << >>]
             ELSE Bind(ConstructItems(text, lines \ {j}), LAMBDA rest :
                    IF rest.st # "ok" THEN rest
                    ELSE [st |-> "ok", items |-> <<head.val>> \o rest.items])))

ConstructBody(text, i, emptyLine) ==
    Bind(BodyOf(text, i), LAMBDA body :
      IF body = {} THEN [st |-> "ok", val |-> MkNull(emptyLine)]
      ELSE IF text[SetMin(body)].k = "value" THEN wrap_yaml_obj(text[SetMin(body)].tok, SetMin(body))
      ELSE Bind(ConstructItems(text, body), LAMBDA its :
             [st |-> its.st, val |-> MkList(its.items, SetMin(body))]))

ConstructValue(text, i) ==
    IF text[i].tok # NoTok THEN wrap_yaml_obj(text[i].tok, i) ELSE ConstructBody(text, i, i)

\* mapping[key] = value: a key written again keeps its first place and line
Assign(mapping, key, kline, val) ==
    IF HasKey(mapping, key) THEN SetItem(mapping, key, val)
    ELSE [mapping EXCEPT !.items = Append(@, [key |-> key, kline |-> kline, val |-> val])]

RECURSIVE ConstructEntries(_, _, _)
ConstructEntries(text, keys, acc) ==
    IF keys = {} THEN [st |-> "ok", val |-> acc]
    ELSE Bind(SetMin(keys), LAMBDA i :
           Bind(ConstructValue(text, i), LAMBDA v :
             IF v.st # "ok" THEN [st |-> v.st, val |-> acc]
             ELSE Bind(Assign(acc, text[i].key, i, v.val), LAMBDA mapping :
                    Bind(keys \ {i}, LAMBDA rest :
                      ConstructEntries(text, rest, mapping)))))


\* Mutant: the YAMLError line is problem_mark.line, not plus one.
load_yaml_MarkLine(text) ==
    LET errs == SyntaxErrorLines(text)
        keys == KeyLines(text)
        top == IF keys = {} THEN ConstructBody(text, 0, Len(text))
               ELSE Bind([MkList(<< >>, SetMin(keys)) EXCEPT !.t = "dict"], LAMBDA empty :
                      ConstructEntries(text, keys, empty))
    IN  IF \E j \in 1..Len(text) : text[j].k = "ctrl"
          THEN [st |-> "YAMLError", val |-> PyNone, line |-> NoLine]
        ELSE IF errs # {} THEN [st |-> "YAMLError", val |-> PyNone, line |-> SetMin(errs) - 1]
        ELSE IF \A j \in 1..Len(text) : text[j].k \notin {"key", "item", "value", "start"}
          THEN [st |-> "ok", val |-> PyNone, line |-> NoLine]
        ELSE IF top.st # "ok" THEN [st |-> "TypeError", val |-> PyNone, line |-> NoLine]
        ELSE [st |-> "ok", val |-> top.val, line |-> NoLine]
\* load_yaml(read_file(fpath)):
\*   [st |-> "ok", val]            the wrapped document
\*   [st |-> "YAMLError", line]    line = problem_mark.line + 1, -1 without a mark
\*   [st |-> "TypeError"]          out of wrap_yaml_obj
load_yaml(text) ==
    LET errs == SyntaxErrorLines(text)
        keys == KeyLines(text)
        top == IF keys = {} THEN ConstructBody(text, 0, Len(text))
               ELSE Bind([MkList(<< >>, SetMin(keys)) EXCEPT !.t = "dict"], LAMBDA empty :
                      ConstructEntries(text, keys, empty))
    IN  IF \E j \in 1..Len(text) : text[j].k = "ctrl"
          THEN [st |-> "YAMLError", val |-> PyNone, line |-> NoLine]
        ELSE IF errs # {} THEN [st |-> "YAMLError", val |-> PyNone, line |-> SetMin(errs)]
        ELSE IF \A j \in 1..Len(text) : text[j].k \notin {"key", "item", "value", "start"}
          THEN [st |-> "ok", val |-> PyNone, line |-> NoLine]
        ELSE IF top.st # "ok" THEN [st |-> "TypeError", val |-> PyNone, line |-> NoLine]
        ELSE [st |-> "ok", val |-> top.val, line |-> NoLine]

(***************************************************************************)
(* Verification primitives (utils).  A step of verification ends           *)
(*   st = "ok"                 with the (mutated) config,                  *)
(*   st = "VerificationError"  with exc.line and exc.detail, or            *)
(*   st = another exception's name, which Config.verify does not catch.    *)
(***************************************************************************)

Ok(config) == [st |-> "ok", config |-> config, line |-> NoLine, detail |-> ""]

Raise(exc) == [st |-> exc, config |-> PyNone, line |-> NoLine, detail |-> ""]

\* VerificationError.__init__
VerificationError(detail, line) ==
    [st |-> "VerificationError", config |-> PyNone, line |-> line,
     detail |-> IF line < 0 THEN detail ELSE "at line " \o IntStr(line) \o ": " \o detail]

\* isinstance(value, vtype): bool is a subclass of int
IsInstance(value, vtype) == value.t = vtype \/ (vtype = "int" /\ value.t = "bool")

assert_type(value, vtype) ==
    IF ~IsInstance(value, vtype) THEN VerificationError("expected " \o vtype, value.line)
    ELSE Ok(PyNone)

\* key2line is built from the keys' own line attributes
key_line(cfgmap, key) ==
    IF HasKey(cfgmap, key) THEN cfgmap.items[KeyIndex(cfgmap, key)].kline ELSE NoLine

assert_item_type(config, key, itype) ==
    IF ~HasKey(config, key) THEN Raise("KeyError")
    ELSE IF ~IsInstance(GetItem(config, key), itype)
      THEN VerificationError(key \o ": expected " \o itype, key_line(config, key))
    ELSE Ok(config)

\* len(config[key]) of a str or a list
assert_item_nonempty(config, key) ==
    IF (LET v == GetItem(config, key) IN IF v.t = "str" THEN Len(v.s) ELSE Len(v.items)) = 0
      THEN VerificationError(key \o " is empty", key_line(config, key))
    ELSE Ok(config)

TrueWords == {"yes", "y", "true", "t", "1"}

FalseWords == {"no", "n", "false", "f", "0"}

verify_bool(key, config) ==
    IF ~HasKey(config, key) THEN Raise("KeyError")
    ELSE LET value == GetItem(config, key)
             typed == assert_item_type(config, key, "str")
             svalue == Lower(Strip(value.s))
         IN  IF value.t = "bool" THEN Ok(config)
             ELSE IF value.t = "int"
               THEN IF value.n \notin {0, 1}
                      THEN VerificationError("Invalid value (" \o PyStr(value) \o ")", value.line)
                    ELSE Ok(SetItem(config, key, MkBool(value.n = 1)))
             ELSE IF typed.st # "ok" THEN typed
             ELSE IF svalue \in TrueWords THEN Ok(SetItem(config, key, MkBool(TRUE)))
             ELSE IF svalue \in FalseWords THEN Ok(SetItem(config, key, MkBool(FALSE)))
             ELSE VerificationError("Invalid value (" \o PyStr(value) \o ")", value.line)

IntOf(v) == IF v.t = "bool" THEN (IF v.b THEN 1 ELSE 0) ELSE v.n

verify_int(key, config, vmin, vmax) ==
    LET typed == assert_item_type(config, key, "int")
        value == GetItem(config, key)
    IN  IF typed.st # "ok" THEN typed
        ELSE IF IntOf(value) < vmin \/ IntOf(value) > vmax
          THEN VerificationError("Invalid value (" \o PyStr(value) \o ")", value.line)
        ELSE Ok(config)

\* regexp = "None" is the call without a pattern
verify_str(key, config, regexp) ==
    LET typed == assert_item_type(config, key, "str")
        filled == assert_item_nonempty(config, key)
        value == GetItem(config, key)
        svalue == Strip(value.s)
    IN  IF typed.st # "ok" THEN typed
        ELSE IF filled.st # "ok" THEN filled
        ELSE IF regexp # "None" /\ ~Match(regexp, svalue)
          THEN VerificationError("Invalid value format (" \o PyStr(value) \o ")", value.line)
        ELSE Ok(SetItem(config, key, MkStr(svalue, NoLine)))

\* Mutant: a rejected item is reported at the line of the first item.
RECURSIVE VerifyItems_FirstLine(_, _, _, _)
VerifyItems_FirstLine(items, i, accepted, item_name) ==
    IF i > Len(items) THEN Ok(MkList(items, NoLine))
    ELSE Bind(items[i], LAMBDA item :
           Bind(assert_type(item, "str"), LAMBDA typed :
             IF typed.st # "ok" THEN typed
             ELSE Bind(sanitize(item.s), LAMBDA sitem :
                    IF ~accepted[sitem]
                      THEN VerificationError("Invalid " \o item_name \o " (" \o PyStr(item) \o ")",
                                             items[1].line)
                    ELSE Bind([items EXCEPT ![i] = MkStr(sitem, NoLine)], LAMBDA written :
                           VerifyItems_FirstLine(written, i + 1, accepted, item_name)))))

\* The loop over the items of verify_list and of Classifiers.verify: accept(s)
\* is the test of the sanitized item.  [st, items] or the error raised.
RECURSIVE VerifyItems(_, _, _, _)
VerifyItems(items, i, accepted, item_name) ==
    IF i > Len(items) THEN Ok(MkList(items, NoLine))
    ELSE Bind(items[i], LAMBDA item :
           Bind(assert_type(item, "str"), LAMBDA typed :
             IF typed.st # "ok" THEN typed
             ELSE Bind(sanitize(item.s), LAMBDA sitem :
                    IF ~accepted[sitem]
                      THEN VerificationError("Invalid " \o item_name \o " (" \o PyStr(item) \o ")",
                                             item.line)
                    ELSE Bind([items EXCEPT ![i] = MkStr(sitem, NoLine)], LAMBDA written :
                           VerifyItems(written, i + 1, accepted, item_name)))))

\* The sanitized forms of the str items of a list, the arguments of accept.
SanitizedOf(items) == { sanitize(items[i].s) : i \in { j \in 1..Len(items) : items[j].t = "str" } }

verify_list(key, config, regexp, item_name, empty, sort) ==
    LET typed == assert_item_type(config, key, "list")
        filled == assert_item_nonempty(config, key)
        list == GetItem(config, key)
        accepted == [s \in SanitizedOf(list.items) |-> Match(regexp, s)]
        done == VerifyItems(list.items, 1, accepted, item_name)
    IN  IF typed.st # "ok" THEN typed
        ELSE IF ~empty /\ filled.st # "ok" THEN filled
        ELSE IF done.st # "ok" THEN done
        ELSE IF sort THEN Raise("TypeError")   \* sorted(items, self.sorter): one positional argument only
        ELSE Ok(SetItem(config, key, [list EXCEPT !.items = done.config.items]))

(***************************************************************************)
(* The field rules (post_gen_project)                                      *)
(***************************************************************************)

CLASSIFIERS_KEY == "classifiers"

INTERPRETERS_KEY == "interpreters"

KEYWORDS_KEY == "keywords"

PLATFORMS_KEY == "platforms"

REQUIREMENTS_KEY == "requirements"

PROJECT_TYPE_KEY == "project_type"

PLUGIN_NAME_SPACE_KEY == "plugin_name_space"

ENTRY_POINT_NAME_KEY == "entry_point_name"

ENTRY_POINT_SOURCE_KEY == "entry_point_source"

ENTRY_POINT_SOURCE_DESCRIPTION_KEY == "entry_point_source_description"

ENTRY_POINT_FUNCTION_KEY == "entry_point_function"

INITIALIZE_WITH_GIT_KEY == "initialize_with_git"

PACKAGE == 0

PLUGIN == 1

CONSOLE_APP == 2

PYVERS == <<"3.6", "3.7", "3.8", "3.9">>

\* What load_classifiers returns: the package's, the index's or the bundled list.
LoadedClassifiers ==
    <<"Development Status :: 3 - Alpha",
      "License :: OSI Approved :: BSD License",
      "License :: OSI Approved :: MIT License",
      "Topic :: Utilities">>

\* c.startswith("License ::")
IsLicense(c) == Len(c) >= 10 /\ SubSeq(c, 1, 10) = "License ::"

find_license(classifiers, license_name) ==
    LET hits == { i \in 1..Len(classifiers) :
                    /\ IsLicense(classifiers[i])
                    /\ \E j \in 1..(Len(classifiers[i]) - Len(license_name) + 1) :
                          SubSeq(classifiers[i], j, j + Len(license_name) - 1) = license_name }
    IN  IF hits = {} THEN "" ELSE classifiers[SetMin(hits)]

\* Mutant: the license entries stay among the classifiers an author may write.
NonLicense_All(classifiers) == classifiers

\* Classifiers.__classifiers: the loaded list without the license entries
RECURSIVE NonLicense(_)
NonLicense(classifiers) ==
    IF Len(classifiers) = 0 THEN << >>
    ELSE (IF IsLicense(classifiers[1]) THEN << >> ELSE <<classifiers[1]>>)
         \o NonLicense(Tail(classifiers))

PlainStrs(strs) == [i \in 1..Len(strs) |-> MkStr(strs[i], NoLine)]

Classifiers_verify(config) ==
    LET key == CLASSIFIERS_KEY
        typed == assert_item_type(config, key, "list")
        list == GetItem(config, key)
        known == { NonLicense(LoadedClassifiers)[i] : i \in 1..Len(NonLicense(LoadedClassifiers)) }
        accepted == [s \in SanitizedOf(list.items) |-> s \in known]
        done == VerifyItems(list.items, 1, accepted, "classifier")
    IN  IF typed.st # "ok" THEN typed
        ELSE IF done.st # "ok" THEN done
        ELSE Bind(Append([i \in 1..Len(done.config.items) |-> done.config.items[i].s],
                         find_license(LoadedClassifiers, "MIT")), LAMBDA items :
               Ok(SetItem(config, key, MkList(PlainStrs(SortedTo(items, Len(items))), NoLine))))

\* Interpreters.sorter(key): the tuple of the dotted components as integers
Interpreters_sorter(key) ==
    LET parts == SplitOn(key, ".") IN [i \in 1..Len(parts) |-> ToInt(parts[i])]

Interpreters_verify(config) ==
    verify_list(INTERPRETERS_KEY, config, "PYVER_RE", "Python version", FALSE, FALSE)

\* Mutant: an empty list of keywords is accepted.
Keywords_verify_AllowEmpty(config) ==
    verify_list(KEYWORDS_KEY, config, "KWORD_RE", "keyword format", TRUE, FALSE)

Keywords_verify(config) ==
    verify_list(KEYWORDS_KEY, config, "KWORD_RE", "keyword format", FALSE, FALSE)

Platforms_verify(config) ==
    verify_list(PLATFORMS_KEY, config, "WORD_RE", "platform name", FALSE, FALSE)

Requirements_verify(config) ==
    verify_list(REQUIREMENTS_KEY, config, "WORD_RE", "requirement name", TRUE, FALSE)

ProjectType_verify(config) == verify_int(PROJECT_TYPE_KEY, config, PACKAGE, CONSOLE_APP)

\* project_type = config[PROJECT_TYPE_KEY]; the comparison of what it holds
ProjectTypeIs(config, n) ==
    LET v == GetItem(config, PROJECT_TYPE_KEY) IN v.t \in {"int", "bool"} /\ IntOf(v) = n

\* Mutant: the rule does not look at project_type.
PluginNameSpace_verify_Always(config) ==
    IF ~HasKey(config, PROJECT_TYPE_KEY) THEN Raise("KeyError")
    ELSE verify_str(PLUGIN_NAME_SPACE_KEY, config, "IDEN_RE")

PluginNameSpace_verify(config) ==
    IF ~HasKey(config, PROJECT_TYPE_KEY) THEN Raise("KeyError")
    ELSE IF ~ProjectTypeIs(config, PLUGIN) THEN Ok(config)
    ELSE verify_str(PLUGIN_NAME_SPACE_KEY, config, "IDEN_RE")

EntryPointName_verify(config) ==
    IF ~HasKey(config, PROJECT_TYPE_KEY) THEN Raise("KeyError")
    ELSE IF ProjectTypeIs(config, PACKAGE) THEN Ok(config)
    ELSE verify_str(ENTRY_POINT_NAME_KEY, config, "WORD_RE")

EntryPointSource_verify(config) ==
    IF ~HasKey(config, PROJECT_TYPE_KEY) THEN Raise("KeyError")
    ELSE IF ProjectTypeIs(config, PACKAGE) THEN Ok(config)
    ELSE verify_str(ENTRY_POINT_SOURCE_KEY, config, "IDEN_RE")

\* config[self.key][-1] of an empty str raises IndexError
EntryPointSourceDescription_verify(config) ==
    LET key == ENTRY_POINT_SOURCE_DESCRIPTION_KEY
        done == verify_str(key, config, "None")
        text == GetItem(done.config, key).s
    IN  IF ~HasKey(config, PROJECT_TYPE_KEY) THEN Raise("KeyError")
        ELSE IF ProjectTypeIs(config, PACKAGE) THEN Ok(config)
        ELSE IF done.st # "ok" THEN done
        ELSE IF Len(text) = 0 THEN Raise("IndexError")
        ELSE IF Ch(text, Len(text)) # "."
          THEN Ok(SetItem(done.config, key, MkStr(text \o ".", NoLine)))
        ELSE done

EntryPointFunction_verify(config) ==
    IF ~HasKey(config, PROJECT_TYPE_KEY) THEN Raise("KeyError")
    ELSE IF ~ProjectTypeIs(config, CONSOLE_APP) THEN Ok(config)
    ELSE verify_str(ENTRY_POINT_FUNCTION_KEY, config, "IDEN_RE")

InitializeWithGit_verify(config) == verify_bool(INITIALIZE_WITH_GIT_KEY, config)

\* ProjectConfig.__init__: set_items, the keys of name2item in order
ProjectConfig_items ==
    <<CLASSIFIERS_KEY, INTERPRETERS_KEY, KEYWORDS_KEY, PLATFORMS_KEY, REQUIREMENTS_KEY,
      PROJECT_TYPE_KEY, PLUGIN_NAME_SPACE_KEY, ENTRY_POINT_NAME_KEY, ENTRY_POINT_SOURCE_KEY,
      ENTRY_POINT_SOURCE_DESCRIPTION_KEY, ENTRY_POINT_FUNCTION_KEY, INITIALIZE_WITH_GIT_KEY>>

DeclaredKeys == { ProjectConfig_items[i] : i \in 1..Len(ProjectConfig_items) }

\* item.verify(config) of the item registered under key
item_verify(key, config) ==
    CASE key = CLASSIFIERS_KEY -> Classifiers_verify(config)
      [] key = INTERPRETERS_KEY -> Interpreters_verify(config)
      [] key = KEYWORDS_KEY -> Keywords_verify(config)
      [] key = PLATFORMS_KEY -> Platforms_verify(config)
      [] key = REQUIREMENTS_KEY -> Requirements_verify(config)
      [] key = PROJECT_TYPE_KEY -> ProjectType_verify(config)
      [] key = PLUGIN_NAME_SPACE_KEY -> PluginNameSpace_verify(config)
      [] key = ENTRY_POINT_NAME_KEY -> EntryPointName_verify(config)
      [] key = ENTRY_POINT_SOURCE_KEY -> EntryPointSource_verify(config)
      [] key = ENTRY_POINT_SOURCE_DESCRIPTION_KEY -> EntryPointSourceDescription_verify(config)
      [] key = ENTRY_POINT_FUNCTION_KEY -> EntryPointFunction_verify(config)
      [] key = INITIALIZE_WITH_GIT_KEY -> InitializeWithGit_verify(config)

(***************************************************************************)
(* Config.verify                                                           *)
(***************************************************************************)

\* Mutant: the key check reports the last undeclared key.
Config_verify_keys_Last(config) ==
    LET typed == assert_type(config, "dict")
        unknown == { i \in 1..Len(config.items) : config.items[i].key \notin DeclaredKeys }
        last == config.items[CHOOSE m \in unknown : \A o \in unknown : o <= m]
    IN  IF typed.st # "ok" THEN typed
        ELSE IF unknown # {}
          THEN VerificationError("Invalid key (" \o last.key \o ")", last.kline)
        ELSE Ok(config)

\* Config.verify_keys on what the reader returned
Config_verify_keys(config) ==
    LET typed == assert_type(config, "dict")
        unknown == { i \in 1..Len(config.items) : config.items[i].key \notin DeclaredKeys }
        first == config.items[SetMin(unknown)]
    IN  IF typed.st # "ok" THEN typed
        ELSE IF unknown # {}
          THEN VerificationError("Invalid key (" \o first.key \o ")", first.kline)
        ELSE Ok(config)

\* Mutant: the items are walked in the order of the document's keys.
VerifyOrder_Document(config) == [i \in 1..Len(config.items) |-> config.items[i].key]

\* The order in which Config.verify walks the items: name2item's.
VerifyOrder(config) == ProjectConfig_items

\* for _, item in name2item.items(): item.verify(config), to the first raise.
\* invoked lists the keys of the items whose verify was called.
RECURSIVE VerifyItemsInOrder(_, _, _, _)
VerifyItemsInOrder(order, i, config, invoked) ==
    IF i > Len(order) THEN [res |-> Ok(config), invoked |-> invoked]
    ELSE Bind(item_verify(order[i], config), LAMBDA step :
           Bind(Append(invoked, order[i]), LAMBDA called :
             IF step.st # "ok" THEN [res |-> step, invoked |-> called]
             ELSE VerifyItemsInOrder(order, i + 1, step.config, called)))

\* What a call of Config.verify ends with: a Result (valid, value), an Error
\* (not valid, value None, line, detail), or an exception it lets through
\* (exc).  invoked and stage record how far the call went.
Outcome(valid, value, line, detail, exc, stage, invoked) ==
    [valid |-> valid, value |-> value, line |-> line, detail |-> detail,
     exc |-> exc, stage |-> stage, invoked |-> invoked]

NoOutcome == Outcome(FALSE, PyNone, NoLine, "", "", "none", << >>)

Result(value, invoked) == Outcome(TRUE, value, NoLine, "", "", "done", invoked)

Error(line, detail, stage, invoked) == Outcome(FALSE, PyNone, line, detail, "", stage, invoked)

Escaped(exc, stage, invoked) == Outcome(FALSE, PyNone, NoLine, "", exc, stage, invoked)

Config_verify(text) ==
    Bind(load_yaml(text), LAMBDA loaded :
      IF loaded.st = "YAMLError" THEN Error(loaded.line, "YAMLError", "load", << >>)
      ELSE IF loaded.st # "ok" THEN Escaped(loaded.st, "load", << >>)
      ELSE Bind(Config_verify_keys(loaded.val), LAMBDA keyed :
             IF keyed.st = "VerificationError"
               THEN Error(keyed.line, keyed.detail, "keys", << >>)
             ELSE Bind(VerifyItemsInOrder(VerifyOrder(loaded.val), 1, loaded.val, << >>), LAMBDA run :
                    IF run.res.st = "VerificationError"
                      THEN Error(run.res.line, run.res.detail, "items", run.invoked)
                    ELSE IF run.res.st # "ok" THEN Escaped(run.res.st, "items", run.invoked)
                    ELSE Result(run.res.config, run.invoked))))

\* Mutant: without items Config.verify returns an Error.
Config_verify_unset_Error(text) ==
    Bind(load_yaml(text), LAMBDA loaded :
      IF loaded.st = "YAMLError" THEN Error(loaded.line, "YAMLError", "load", << >>)
      ELSE IF loaded.st # "ok" THEN Escaped(loaded.st, "load", << >>)
      ELSE Error(NoLine, "Configuration items are not set.", "keys", << >>))

\* Config.verify when the items are not set: verify_keys calls error(), which exits.
Config_verify_unset(text) ==
    Bind(load_yaml(text), LAMBDA loaded :
      IF loaded.st = "YAMLError" THEN Error(loaded.line, "YAMLError", "load", << >>)
      ELSE IF loaded.st # "ok" THEN Escaped(loaded.st, "load", << >>)
      ELSE Escaped("SystemExit", "keys", << >>))

(***************************************************************************)
(* Rendering: YamlConfigItem.val2yml, YamlConfigItem.render,               *)
(* ProjectConfig.render, Config.write_config                               *)
(***************************************************************************)

\* What each item's __init__ sets: description lines, value, hint.
ItemSetup(key) ==
    CASE key = CLASSIFIERS_KEY ->
           [description |-> 1, hint |-> TRUE,
            value |-> MkList(PlainStrs(NonLicense(LoadedClassifiers)), NoLine)]
      [] key = INTERPRETERS_KEY ->
           [description |-> 1, hint |-> FALSE, value |-> MkList(PlainStrs(PYVERS), NoLine)]
      [] key = KEYWORDS_KEY ->
           [description |-> 1, hint |-> FALSE, value |-> MkList(<< >>, NoLine)]
      [] key = PLATFORMS_KEY ->
           [description |-> 2, hint |-> FALSE, value |-> MkList(<< >>, NoLine)]
      [] key = REQUIREMENTS_KEY ->
           [description |-> 1, hint |-> FALSE, value |-> MkList(<< >>, NoLine)]
      [] key = PROJECT_TYPE_KEY ->
           [description |-> 4, hint |-> FALSE, value |-> MkInt(PACKAGE, NoLine)]
      [] key = ENTRY_POINT_FUNCTION_KEY ->
           [description |-> 3, hint |-> FALSE, value |-> MkStr("main", NoLine)]
      [] key = INITIALIZE_WITH_GIT_KEY ->
           [description |-> 2, hint |-> FALSE, value |-> MkStr("yes", NoLine)]
      [] OTHER ->
           [description |-> 3, hint |-> FALSE, value |-> PyNone]

\* val2yml(value).strip(): the scalar as it is written after "key: " or "- "
val2yml(value) ==
    CASE value.t = "none" -> Plain("null")
      [] value.t = "bool" -> Plain(IF value.b THEN "true" ELSE "false")
      [] value.t = "str" -> Quoted(value.s)
      [] value.t = "list" /\ Len(value.items) > 0 -> NoTok
      [] value.t = "list" -> Plain("[]")
      [] OTHER -> Plain(PyStr(value))

YamlConfigItem_render(key) ==
    LET item == ItemSetup(key)
        shown == IF item.value.t = "list" /\ item.hint THEN MkList(<< >>, NoLine) ELSE item.value
        elems == IF item.value.t = "list" THEN item.value.items ELSE << >>
    IN  [i \in 1..item.description |-> CommentLn]
        \o <<KeyLn(key, val2yml(shown))>>
        \o [i \in 1..Len(elems) |-> IF item.hint THEN CommentLn ELSE ItemLn(val2yml(elems[i]))]
        \o <<BlankLn>>

RECURSIVE Config_render(_)
Config_render(items) ==
    IF Len(items) = 0 THEN << >>
    ELSE YamlConfigItem_render(items[1]) \o Config_render(Tail(items))

ProjectConfig_render == <<StartLn, BlankLn>> \o Config_render(ProjectConfig_items)

(***************************************************************************)
(* Project.init_j2env: the keys it reads from the configuration            *)
(***************************************************************************)

\* Config.__len__
Config_len(data) == IF data.t = "dict" THEN Len(data.items) ELSE 0

(***************************************************************************)
(* What the operator may leave in the file when the editor exits: a valid  *)
(* document of each project type, with one field rewritten, a key removed, *)
(* a key added, the keys reordered, or the text damaged.                   *)
(***************************************************************************)

Field(key, tok, items) == [key |-> key, tok |-> tok, items |-> items]

Written(tok, items) == [tok |-> tok, items |-> items]

Scalar(tok) == Written(tok, << >>)

Items(toks) == Written(NoTok, toks)

RECURSIVE FormLines(_)
FormLines(form) == IF Len(form) = 0 THEN << >> ELSE <<CommentLn, KeyLn(form[1].key, form[1].tok)>>
         \o [i \in 1..Len(form[1].items) |-> ItemLn(form[1].items[i])] \o <<BlankLn>>
         \o FormLines(Tail(form))

FormText(form) == <<StartLn, BlankLn>> \o FormLines(form)

ProjectTypes == {PACKAGE, PLUGIN, CONSOLE_APP}

BaseWritten(pt, key) ==
    CASE key = CLASSIFIERS_KEY -> Items(<<Quoted("Topic :: Utilities")>>)
      [] key = INTERPRETERS_KEY -> Items(<<Quoted("3.6"), Quoted("3.7")>>)
      [] key = KEYWORDS_KEY -> Items(<<Quoted("build tools")>>)
      [] key = PLATFORMS_KEY -> Items(<<Quoted("any")>>)
      [] key = REQUIREMENTS_KEY -> Scalar(Plain("[]"))
      [] key = PROJECT_TYPE_KEY -> Scalar(Plain(IntStr(pt)))
      [] key = PLUGIN_NAME_SPACE_KEY -> Scalar(IF pt = PLUGIN THEN Quoted("tox") ELSE Plain("null"))
      [] key = ENTRY_POINT_NAME_KEY -> Scalar(IF pt # PACKAGE THEN Quoted("my-tool") ELSE Plain("null"))
      [] key = ENTRY_POINT_SOURCE_KEY -> Scalar(IF pt # PACKAGE THEN Quoted("tool_main") ELSE Plain("null"))
      [] key = ENTRY_POINT_SOURCE_DESCRIPTION_KEY ->
           Scalar(IF pt # PACKAGE THEN Quoted("Runs the tool") ELSE Plain("null"))
      [] key = ENTRY_POINT_FUNCTION_KEY -> Scalar(Quoted("main"))
      [] key = INITIALIZE_WITH_GIT_KEY -> Scalar(Quoted("yes"))

BaseForm(pt) ==
    [i \in 1..Len(ProjectConfig_items) |->
        LET w == BaseWritten(pt, ProjectConfig_items[i])
        IN  Field(ProjectConfig_items[i], w.tok, w.items)]

\* The other ways a field may be written.
BoolAlts ==
    {Scalar(Quoted(w)) : w \in TrueWords \cup FalseWords
                               \cup {"YES", " No ", "True", "maybe", "on", ""}}
    \cup {Scalar(Plain(w)) : w \in {"1", "0", "2", "-1", "y", "n", "true", "False", "yes", "no", "null"}}
    \cup {Items(<<Quoted("yes")>>)}

Alts(key) ==
    CASE key = CLASSIFIERS_KEY ->
           {Scalar(Plain("[]")), Scalar(Plain("")), Scalar(Quoted("Topic :: Utilities")),
            Items(<<Quoted("Topic :: Utilities"), Quoted("  Development   Status :: 3 - Alpha ")>>),
            Items(<<Quoted("Topic :: Utilities"), Quoted("License :: OSI Approved :: MIT License")>>),
            Items(<<Quoted("Topic :: Utilities"), Quoted("Topic :: Unknown")>>),
            Items(<<Plain("7"), Quoted("Topic :: Unknown")>>)}
      [] key = INTERPRETERS_KEY ->
           {Scalar(Plain("[]")), Scalar(Quoted("3.6")),
            Items(<<Quoted("3.9"), Quoted("3.6"), Quoted("3.7")>>),
            Items(<<Quoted("3.10"), Quoted("3.9")>>),
            Items(<<Quoted("3.6"), Quoted(" 3.6 ")>>),
            Items(<<Quoted("3.6"), Quoted("2.7")>>),
            Items(<<Quoted("3.6"), Plain("3.7")>>)}
      [] key = KEYWORDS_KEY ->
           {Scalar(Plain("[]")), Scalar(Plain("null")),
            Items(<<Quoted("tools"), Quoted("  build    tools ")>>),
            Items(<<Quoted("tools"), Quoted("ab")>>)}
      [] key = PLATFORMS_KEY ->
           {Scalar(Plain("[]")), Items(<<Quoted("linux"), Quoted("win32")>>),
            Items(<<Quoted("li nux")>>), Items(<<Plain("")>>)}
      [] key = REQUIREMENTS_KEY ->
           {Items(<<Quoted("requests"), Quoted("click")>>), Items(<<Quoted("click"), Quoted("1bad")>>),
            Scalar(Quoted("click")), Scalar(Plain(""))}
      [] key = PROJECT_TYPE_KEY ->
           {Scalar(Plain("3")), Scalar(Plain("-1")), Scalar(Quoted("1")), Scalar(Plain("")),
            Scalar(Plain("1.5")), Items(<<Plain("1")>>)}
      [] key = ENTRY_POINT_SOURCE_DESCRIPTION_KEY ->
           {Scalar(Plain("")), Scalar(Quoted("   ")), Scalar(Quoted("")), Scalar(Quoted(" Ends well. ")),
            Scalar(Plain("5")), Items(<<Quoted("abc")>>)}
      [] key = INITIALIZE_WITH_GIT_KEY -> BoolAlts
      [] OTHER ->
           {Scalar(Plain("")), Scalar(Quoted("1bad")), Scalar(Quoted("   ")), Scalar(Quoted(" good_name ")),
            Scalar(Plain("5")), Items(<<Quoted("abc")>>)}

Rewritten(form, key, w) ==
    [i \in 1..Len(form) |-> IF form[i].key = key THEN Field(key, w.tok, w.items) ELSE form[i]]

RECURSIVE Without(_, _)
Without(form, key) ==
    IF Len(form) = 0 THEN << >>
    ELSE (IF form[1].key = key THEN << >> ELSE <<form[1]>>) \o Without(Tail(form), key)

Reversed(form) == [i \in 1..Len(form) |-> form[Len(form) + 1 - i]]

UnknownField == Field("author", Quoted("somebody"), << >>)

\* An undeclared key before, between or after the declared ones, alone or
\* together with a value that fails its rule; failing values in either order.
Mixed(pt) ==
    LET base == BaseForm(pt)
        badKeywords == Rewritten(base, KEYWORDS_KEY, Scalar(Plain("[]")))
        badGit == Rewritten(base, INITIALIZE_WITH_GIT_KEY, Scalar(Quoted("maybe")))
        badBoth == Rewritten(badKeywords, INITIALIZE_WITH_GIT_KEY, Scalar(Quoted("maybe")))
        badType == Rewritten(badGit, PROJECT_TYPE_KEY, Scalar(Plain("3")))
    IN  {<<UnknownField>> \o base, base \o <<UnknownField>>,
         SubSeq(base, 1, 3) \o <<UnknownField>> \o SubSeq(base, 4, Len(base)),
         <<UnknownField>> \o base \o <<Field("zzz", Plain("1"), << >>)>>,
         badKeywords \o <<UnknownField>>, <<UnknownField>> \o badGit,
         Reversed(base), Reversed(badBoth), badBoth, Reversed(badType), badType,
         Reversed(base) \o <<UnknownField>>}

Damaged(pt) ==
    LET text == FormText(BaseForm(pt))
    IN  {[text EXCEPT ![i] = BadLn] : i \in {4, Len(text) - 1}}
        \cup {[text EXCEPT ![2] = CtrlLn],
              SubSeq(text, 1, 4) \o <<ValueLn(Quoted("x"))>> \o SubSeq(text, 5, Len(text)),
              FormText(Rewritten(BaseForm(pt), CLASSIFIERS_KEY,
                                 Written(Plain("[]"), <<Quoted("Topic :: Utilities")>>)))}

EditorTexts ==
    {ProjectConfig_render}
    \cup {FormText(BaseForm(pt)) : pt \in ProjectTypes}
    \cup UNION {{FormText(f) : f \in {Rewritten(BaseForm(pt), key, w) :
                                        <<key, w>> \in UNION {{k} \X Alts(k) : k \in DeclaredKeys}}
                                  \cup {Without(BaseForm(pt), key) : key \in DeclaredKeys}
                                  \cup Mixed(pt)} : pt \in ProjectTypes}
    \cup UNION {Damaged(pt) : pt \in ProjectTypes}
    \cup {<< >>, <<StartLn, BlankLn>>, <<CommentLn, BlankLn>>, <<StartLn, CommentLn, ItemLn(Quoted("abc"))>>,
          <<ValueLn(Plain("5"))>>}

\* What a repeated session may leave: the template untouched, a valid document,
\* and documents that fail in the reader, at the keys, in a rule and with an
\* exception.
RetryTexts ==
    {ProjectConfig_render, FormText(BaseForm(PACKAGE)), FormText(BaseForm(CONSOLE_APP)),
     FormText(<<UnknownField>> \o BaseForm(PLUGIN)),
     FormText(Rewritten(BaseForm(PLUGIN), INITIALIZE_WITH_GIT_KEY, Scalar(Quoted("maybe")))),
     FormText(Rewritten(BaseForm(PACKAGE), INTERPRETERS_KEY, Items(<<Quoted("3.6"), Quoted("2.7")>>))),
     FormText(Rewritten(BaseForm(PACKAGE), INITIALIZE_WITH_GIT_KEY, Scalar(Plain("true")))),
     FormText(Without(BaseForm(PLUGIN), PLUGIN_NAME_SPACE_KEY)),
     [FormText(BaseForm(PACKAGE)) EXCEPT ![4] = BadLn],
     [FormText(BaseForm(PACKAGE)) EXCEPT ![2] = CtrlLn],
     << >>}

(***************************************************************************)
(* The editor command: Config.set_editor, Config.edit                      *)
(***************************************************************************)

NAME_ARG == "@NAME@"

LINE_ARG == "@LINE@"

\* fpath: config.yaml in the temporary directory
FPath == "/tmp/tmpdir/config.yaml"

\* p in s
Contains(s, p) == \E i \in 1..(Len(s) - Len(p) + 1) : SubSeq(s, i, i + Len(p) - 1) = p

\* s.replace(old, new) from position i on: left to right, without overlaps
RECURSIVE ReplaceFrom(_, _, _, _)
ReplaceFrom(s, i, old, new) ==
    IF i > Len(s) THEN ""
    ELSE IF i + Len(old) - 1 <= Len(s) /\ SubSeq(s, i, i + Len(old) - 1) = old
      THEN new \o ReplaceFrom(s, i + Len(old), old, new)
    ELSE Ch(s, i) \o ReplaceFrom(s, i + 1, old, new)

\* Mutant: the path placeholder is appended only if no argument contains it.
set_editor_Contained(template) ==
    LET parts == SplitWs(template)
        args == Tail(parts)
    IN  IF Len(parts) = 0 THEN [st |-> "SystemExit", editor |-> "", args |-> << >>]
        ELSE [st |-> "ok", editor |-> parts[1],
              args |-> IF \E i \in 1..Len(args) : Contains(args[i], NAME_ARG)
                         THEN args ELSE Append(args, NAME_ARG)]

\* Config.set_editor: error("Missing editor.") exits, else __editor and __editor_args
set_editor(template) ==
    LET parts == SplitWs(template)
        args == Tail(parts)
    IN  IF Len(parts) = 0 THEN [st |-> "SystemExit", editor |-> "", args |-> << >>]
        ELSE [st |-> "ok", editor |-> parts[1],
              args |-> IF \E i \in 1..Len(args) : args[i] = NAME_ARG
                         THEN args ELSE Append(args, NAME_ARG)]

\* Config.edit: the arguments the editor is run with
Config_edit(args, fpath, line) ==
    LET kept == SelectSeq(args, LAMBDA x : ~(line < 0 /\ Contains(x, LINE_ARG)))
    IN  [i \in 1..Len(kept) |->
            ReplaceFrom(ReplaceFrom(kept[i], 1, LINE_ARG, IntStr(line)), 1, NAME_ARG, fpath)]

\* Project.__init__: the editor when EDITOR is not in the environment
DefaultEditor == "vim +@LINE@ @NAME@"

(***************************************************************************)
(* The program: Project.configure -> Config.read_config ->                 *)
(* Config.edit_verify_loop                                                 *)
(***************************************************************************)

\* The most editor sessions of one run.
MaxEdits == 4

VARIABLES
    pc,         \* where the program is: start, edit, verify, prompt, returned, configure, done
    tmpdir,     \* whether read_config's temporary directory exists
    file,       \* the text of config.yaml
    at_line,    \* edit_verify_loop's at_line
    verified,   \* the text the last Config.verify read
    result,     \* what the last Config.verify ended with
    answer,     \* what click.prompt last returned: "y", "n", "" before
    ret,        \* what edit_verify_loop returned
    data,       \* Config.__data
    configured, \* what Project.configure returned: "True", "False", "" before
    raised,     \* the exception that left Project.configure, "" for none
    nEdit,      \* editor invocations
    nInvalid,   \* verifications that returned an Error
    nPrompt,    \* "Continue in editing?" prompts
    items_set,  \* whether Config.__name2item holds the items
    editor,     \* Config.__editor, "" for None
    editor_args, \* Config.__editor_args
    argv        \* the arguments of the last editor run

vars ==
    <<pc, tmpdir, file, at_line, verified, result, answer, ret, data, configured, raised,
      nEdit, nInvalid, nPrompt, items_set, editor, editor_args, argv>>

NoFile == << >>

\* What is the same after Project() and after Config(): nothing has run.
Fresh ==
    /\ pc = "start"
    /\ tmpdir = FALSE
    /\ file = NoFile
    /\ at_line = NoLine
    /\ verified = NoFile
    /\ result = NoOutcome
    /\ answer = ""
    /\ ret = PyNone
    /\ data = PyNone
    /\ configured = ""
    /\ raised = ""
    /\ nEdit = 0
    /\ nInvalid = 0
    /\ nPrompt = 0
    /\ argv = << >>

\* After Project(): ProjectConfig() has set the items, set_editor the default editor.
Init ==
    /\ Fresh
    /\ items_set = TRUE
    /\ editor = set_editor(DefaultEditor).editor
    /\ editor_args = set_editor(DefaultEditor).args

\* Config.read_config up to the loop: the directory is made, the template written.
\* Without items Config.render calls error(), which exits.
ReadConfig ==
    /\ pc = "start"
    /\ IF items_set
         THEN /\ tmpdir' = TRUE
              /\ file' = ProjectConfig_render
              /\ pc' = "edit"
              /\ UNCHANGED raised
       ELSE /\ raised' = "SystemExit"
            /\ pc' = "done"
            /\ UNCHANGED <<tmpdir, file>>
    /\ at_line' = NoLine
    /\ UNCHANGED <<verified, result, answer, ret, data, configured, nEdit, nInvalid, nPrompt>>
    /\ UNCHANGED <<items_set, editor, editor_args, argv>>

\* Mutant: an exception leaves read_config without the directory being removed.
Unwind_LeavesFiles(exc) ==
    /\ raised' = exc
    /\ pc' = "done"
    /\ UNCHANGED <<tmpdir, file>>

\* An exception leaves edit_verify_loop, read_config (whose with block removes
\* the directory) and Project.configure.
Unwind(exc) ==
    /\ raised' = exc
    /\ tmpdir' = FALSE
    /\ file' = NoFile
    /\ pc' = "done"

\* Config.edit: the editor runs and exits with 0; the operator left text.
EditExits(text) ==
    /\ pc = "edit"
    /\ editor # ""
    /\ nEdit < MaxEdits
    /\ nEdit' = nEdit + 1
    /\ argv' = Config_edit(editor_args, FPath, at_line)
    /\ file' = text
    /\ pc' = "verify"
    /\ UNCHANGED <<tmpdir, at_line, verified, result, answer, ret, data, configured, raised, nInvalid, nPrompt>>
    /\ UNCHANGED <<items_set, editor, editor_args>>

\* Config.edit: without an editor error() exits; else the editor exits with
\* another code than 0, and runcmd runs it with check=True, so subprocess.run
\* raises CalledProcessError.
EditFails ==
    /\ pc = "edit"
    /\ nEdit < MaxEdits
    /\ IF editor = ""
         THEN /\ Unwind("SystemExit")
              /\ UNCHANGED <<nEdit, argv>>
       ELSE /\ nEdit' = nEdit + 1
            /\ argv' = Config_edit(editor_args, FPath, at_line)
            /\ Unwind("CalledProcessError")
    /\ UNCHANGED <<at_line, verified, result, answer, ret, data, configured, nInvalid, nPrompt>>
    /\ UNCHANGED <<items_set, editor, editor_args>>

\* Mutant: a valid result leaves the loop with None.
Verify_ReturnsNone ==
    /\ pc = "verify"
    /\ verified' = file
    /\ \E res \in {IF items_set THEN Config_verify(file) ELSE Config_verify_unset(file)} :
           /\ result' = res
           /\ IF res.exc # ""
                THEN /\ Unwind(res.exc)
                     /\ UNCHANGED <<ret, nInvalid>>
              ELSE IF res.valid
                THEN /\ ret' = PyNone
                     /\ pc' = "returned"
                     /\ UNCHANGED <<tmpdir, file, raised, nInvalid>>
              ELSE /\ nInvalid' = nInvalid + 1
                   /\ pc' = "prompt"
                   /\ UNCHANGED <<tmpdir, file, raised, ret>>
    /\ UNCHANGED <<at_line, answer, data, configured, nEdit, nPrompt>>
    /\ UNCHANGED <<items_set, editor, editor_args, argv>>

\* Mutant: the registry remembers the outcome of its first verification.
Verify_Remembered ==
    /\ pc = "verify"
    /\ verified' = file
    /\ \E res \in {IF result.stage # "none" THEN result
                   ELSE IF items_set THEN Config_verify(file) ELSE Config_verify_unset(file)} :
           /\ result' = res
           /\ IF res.exc # ""
                THEN /\ Unwind(res.exc)
                     /\ UNCHANGED <<ret, nInvalid>>
              ELSE IF res.valid
                THEN /\ ret' = res.value
                     /\ pc' = "returned"
                     /\ UNCHANGED <<tmpdir, file, raised, nInvalid>>
              ELSE /\ nInvalid' = nInvalid + 1
                   /\ pc' = "prompt"
                   /\ UNCHANGED <<tmpdir, file, raised, ret>>
    /\ UNCHANGED <<at_line, answer, data, configured, nEdit, nPrompt>>
    /\ UNCHANGED <<items_set, editor, editor_args, argv>>

\* result = self.verify(fpath) and the test of result.is_valid()
Verify ==
    /\ pc = "verify"
    /\ verified' = file
    /\ \E res \in {IF items_set THEN Config_verify(file) ELSE Config_verify_unset(file)} :
           /\ result' = res
           /\ IF res.exc # ""
                THEN /\ Unwind(res.exc)
                     /\ UNCHANGED <<ret, nInvalid>>
              ELSE IF res.valid
                THEN /\ ret' = res.value
                     /\ pc' = "returned"
                     /\ UNCHANGED <<tmpdir, file, raised, nInvalid>>
              ELSE /\ nInvalid' = nInvalid + 1
                   /\ pc' = "prompt"
                   /\ UNCHANGED <<tmpdir, file, raised, ret>>
    /\ UNCHANGED <<at_line, answer, data, configured, nEdit, nPrompt>>
    /\ UNCHANGED <<items_set, editor, editor_args, argv>>

\* Mutant: the test of the answer is inverted.
LoopAfterPrompt_Inverted(said) ==
    IF ~said
      THEN /\ at_line' = result.line
           /\ pc' = "edit"
           /\ UNCHANGED ret
      ELSE /\ ret' = PyNone
           /\ pc' = "returned"
           /\ UNCHANGED at_line

\* Mutant: the loop keeps the line of the first error it saw.
LoopAfterPrompt_FirstLine(said) ==
    IF said
      THEN /\ at_line' = (IF at_line = NoLine THEN result.line ELSE at_line)
           /\ pc' = "edit"
           /\ UNCHANGED ret
      ELSE /\ ret' = PyNone
           /\ pc' = "returned"
           /\ UNCHANGED at_line

\* What the loop does with the operator's answer to "Continue in editing?".
LoopAfterPrompt(said) ==
    IF said
      THEN /\ at_line' = result.line
           /\ pc' = "edit"
           /\ UNCHANGED ret
      ELSE /\ ret' = PyNone
           /\ pc' = "returned"
           /\ UNCHANGED at_line

\* click.prompt returns the operator's answer.
Prompt(said) ==
    /\ pc = "prompt"
    /\ nPrompt' = nPrompt + 1
    /\ answer' = (IF said THEN "y" ELSE "n")
    /\ LoopAfterPrompt(said)
    /\ UNCHANGED <<tmpdir, file, verified, result, data, configured, raised, nEdit, nInvalid>>
    /\ UNCHANGED <<items_set, editor, editor_args, argv>>

\* click.prompt raises Abort: the operator interrupts the prompt.
PromptAborts ==
    /\ pc = "prompt"
    /\ nPrompt' = nPrompt + 1
    /\ Unwind("Abort")
    /\ UNCHANGED <<at_line, verified, result, answer, ret, data, configured, nEdit, nInvalid>>
    /\ UNCHANGED <<items_set, editor, editor_args, argv>>

\* write_file in write_config or read_file in load_yaml raises OSError.
FileIOFails ==
    /\ \/ pc = "start" /\ items_set
       \/ pc = "verify"
    /\ Unwind("OSError")
    /\ UNCHANGED <<at_line, verified, result, answer, ret, data, configured, nEdit, nInvalid, nPrompt>>
    /\ UNCHANGED <<items_set, editor, editor_args, argv>>

\* Config.read_config: self.__data = the loop's value, and the with block ends.
ReadConfigReturns ==
    /\ pc = "returned"
    /\ data' = ret
    /\ tmpdir' = FALSE
    /\ file' = NoFile
    /\ pc' = "configure"
    /\ UNCHANGED <<at_line, verified, result, answer, ret, configured, raised, nEdit, nInvalid, nPrompt>>
    /\ UNCHANGED <<items_set, editor, editor_args, argv>>

\* Project.configure after read_config: len(self.config), init_j2env
Configure ==
    /\ pc = "configure"
    /\ pc' = "done"
    /\ IF Config_len(data) = 0
         THEN configured' = "False" /\ UNCHANGED raised
       ELSE IF \E key \in (DeclaredKeys \ {PLUGIN_NAME_SPACE_KEY, ENTRY_POINT_FUNCTION_KEY})
                             \cup (IF ProjectTypeIs(data, PLUGIN) THEN {PLUGIN_NAME_SPACE_KEY} ELSE {})
                             \cup (IF ProjectTypeIs(data, CONSOLE_APP) THEN {ENTRY_POINT_FUNCTION_KEY}
                                   ELSE {}) : ~HasKey(data, key)
         THEN raised' = "KeyError" /\ UNCHANGED configured
       ELSE configured' = "True" /\ UNCHANGED raised
    /\ UNCHANGED <<tmpdir, file, at_line, verified, result, answer, ret, data, nEdit, nInvalid, nPrompt>>
    /\ UNCHANGED <<items_set, editor, editor_args, argv>>

Next ==
    \/ ReadConfig
    \/ \E text \in (IF nEdit = 0 THEN EditorTexts ELSE RetryTexts) : EditExits(text)
    \/ EditFails
    \/ Verify
    \/ \E said \in BOOLEAN : Prompt(said)
    \/ PromptAborts
    \/ FileIOFails
    \/ ReadConfigReturns
    \/ Configure

Spec == Init /\ [][Next]_vars

(***************************************************************************)
(* A Config in the hands of any caller: it may set the items or not, set   *)
(* any editor or none, and call read_config, edit or verify.               *)
(***************************************************************************)

\* What EDITOR may hold.
Templates ==
    {"", "  ", DefaultEditor, "nano", "code -g @NAME@:@LINE@", "emacs +@LINE@",
     "ed @NAME@ +@LINE@ -x@LINE@y@LINE@", "vi @NAME@ @NAME@", "x @NAME@LINE@ -n@NAME@",
     "@NAME@ @LINE@@NAME@"}

\* Config.set_items
SetItems ==
    /\ pc = "start"
    /\ ~items_set
    /\ items_set' = TRUE
    /\ UNCHANGED <<pc, tmpdir, file, at_line, verified, result, answer, ret, data, configured, raised,
                   nEdit, nInvalid, nPrompt, editor, editor_args, argv>>

\* Config.set_editor(template)
SetEditor(template) ==
    /\ pc = "start"
    /\ editor = ""
    /\ \E set \in {set_editor(template)} :
           IF set.st = "ok"
             THEN /\ editor' = set.editor
                  /\ editor_args' = set.args
                  /\ UNCHANGED <<pc, raised>>
           ELSE /\ raised' = "SystemExit"
                /\ pc' = "done"
                /\ UNCHANGED <<editor, editor_args>>
    /\ UNCHANGED <<tmpdir, file, at_line, verified, result, answer, ret, data, configured,
                   nEdit, nInvalid, nPrompt, items_set, argv>>

\* Config.edit(fpath, line) called directly; the editor exits with 0.
CallEdit(line) ==
    /\ pc = "start"
    /\ pc' = "done"
    /\ at_line' = line
    /\ IF editor = ""
         THEN /\ raised' = "SystemExit"
              /\ UNCHANGED <<nEdit, argv>>
       ELSE /\ nEdit' = nEdit + 1
            /\ argv' = Config_edit(editor_args, FPath, line)
            /\ UNCHANGED raised
    /\ UNCHANGED <<tmpdir, file, verified, result, answer, ret, data, configured,
                   nInvalid, nPrompt, items_set, editor, editor_args>>

\* Config.verify(fpath) called directly on a file that holds text.
CallVerify(text) ==
    /\ pc = "start"
    /\ pc' = "done"
    /\ verified' = text
    /\ \E res \in {IF items_set THEN Config_verify(text) ELSE Config_verify_unset(text)} :
           /\ result' = res
           /\ raised' = res.exc
    /\ UNCHANGED <<tmpdir, file, at_line, answer, ret, data, configured,
                   nEdit, nInvalid, nPrompt, items_set, editor, editor_args, argv>>

\* After Config(): no items, no editor.
ConfigInit ==
    /\ Fresh
    /\ items_set = FALSE
    /\ editor = ""
    /\ editor_args = << >>

ConfigNext ==
    \/ SetItems
    \/ \E template \in Templates : SetEditor(template)
    \/ \E line \in {-1, 0, 1, 27} : CallEdit(line)
    \/ \E text \in RetryTexts : CallVerify(text)
    \/ ReadConfig
    \/ \E text \in RetryTexts : EditExits(text)
    \/ EditFails
    \/ Verify
    \/ \E said \in BOOLEAN : Prompt(said)
    \/ PromptAborts
    \/ FileIOFails
    \/ ReadConfigReturns
    \/ Configure

ConfigSpec == ConfigInit /\ [][ConfigNext]_vars

(***************************************************************************)
(* Properties                                                              *)
(***************************************************************************)

LeftLoop == pc \in {"returned", "configure", "done"}

\* C1: when the loop ends with a valid verification after n failed ones, each
\* answered with yes, the editor has run n + 1 times and the operator has been
\* prompted n times, the loop's value is the document that verification
\* normalized, and from then on the editor is not run again.
C1_ValidAfterRetries ==
    result.valid =>
        /\ LeftLoop
        /\ nEdit = nInvalid + 1
        /\ nPrompt = nInvalid
        /\ ret = result.value
        /\ result = Config_verify(verified)
        /\ answer # "n"

C1_Witness ==
    /\ pc = "returned"
    /\ result.valid
    /\ nInvalid = 3
    /\ nEdit = 4
    /\ nPrompt = 3

\* C2: once the operator has declined the prompt the loop has returned None
\* with no editor run and no verification after the failed one, __data stays
\* empty, and Project.configure returns False.
C2_DeclineReturnsNone ==
    answer = "n" =>
        /\ LeftLoop
        /\ ~result.valid
        /\ ret = PyNone
        /\ nEdit = nInvalid
        /\ nPrompt = nInvalid
        /\ pc \in {"configure", "done"} => data = PyNone /\ Config_len(data) = 0
        /\ pc = "done" => configured = "False" /\ raised = ""

C2_Witness ==
    /\ answer = "n"
    /\ pc = "done"
    /\ configured = "False"
    /\ nEdit = 1
    /\ nPrompt = 1

\* Config.verify has run on the text in verified.
Verified == result.stage # "none"

\* The document Config.verify passed to the rules: what the reader returned.
Document == load_yaml(verified).val

\* The rules were reached: the text parsed and held no undeclared key.
ReachedRules == result.stage \in {"items", "done"}

KeyLineIn(text, key) == SetMin({ i \in KeyLines(text) : text[i].key = key })

LastInvoked == result.invoked[Len(result.invoked)]

\* The rules of the first n declared items, each applied to the document as read.
RECURSIVE RulesAlone(_, _)
RulesAlone(doc, n) ==
    IF n = 0 THEN << >>
    ELSE Append(RulesAlone(doc, n - 1), item_verify(ProjectConfig_items[n], doc))

\* C3: whatever the document, Config.verify ends with a Result or an Error (a
\* line and a detail) and no exception leaves it, so a failure of the reader,
\* of the key check or of a rule leads to the prompt and never ends the run.
C3_NoExceptionEscapes ==
    Verified =>
        /\ result.exc = ""
        /\ result.valid \/ result.detail # ""
        /\ raised \notin {"TypeError", "KeyError", "IndexError"}

UnknownKeyLines(text) == { i \in KeyLines(text) : text[i].key \notin DeclaredKeys }

\* C4: on a parsed document with an undeclared key Config.verify returns an
\* Error at the line of the first such key in document order, whatever the
\* declared keys hold, and no rule has been invoked.
C4_UnknownKeyFirst ==
    (Verified /\ result.stage # "load" /\ UnknownKeyLines(verified) # {}) =>
        LET line == SetMin(UnknownKeyLines(verified))
        IN  /\ ~result.valid
            /\ result.exc = ""
            /\ result.stage = "keys"
            /\ result.invoked = << >>
            /\ result.line = line
            /\ result.detail = "at line " \o IntStr(line) \o ": Invalid key ("
                                   \o verified[line].key \o ")"

\* An undeclared key written after a declared one whose value fails its rule.
C4_Witness ==
    /\ pc = "prompt"
    /\ result.stage = "keys"
    /\ UnknownKeyLines(verified) # {}
    /\ HasKey(Document, KEYWORDS_KEY)
    /\ result.line > KeyLineIn(verified, KEYWORDS_KEY)
    /\ Keywords_verify(Document).st = "VerificationError"

\* C5: the rules are invoked in declaration order on one document: the rules
\* invoked are those up to the first one that fails on the document, the
\* outcome is that rule's, and a valid outcome holds every rule's normalization.
C5_DeclarationOrder ==
    (Verified /\ ReachedRules) =>
        \E doc \in {Document} : \E alone \in {RulesAlone(doc, Len(ProjectConfig_items))} :
            LET failing == { i \in 1..Len(alone) : alone[i].st # "ok" }
            IN  IF failing = {}
                  THEN /\ result.valid
                       /\ result.invoked = ProjectConfig_items
                       /\ \A i \in 1..Len(alone) :
                            LET key == ProjectConfig_items[i]
                            IN  HasKey(doc, key) =>
                                  GetItem(result.value, key) = GetItem(alone[i].config, key)
                ELSE LET first == SetMin(failing)
                     IN  /\ ~result.valid
                         /\ result.invoked = SubSeq(ProjectConfig_items, 1, first)
                         /\ IF alone[first].st = "VerificationError"
                              THEN /\ result.exc = ""
                                   /\ result.line = alone[first].line
                                   /\ result.detail = alone[first].detail
                            ELSE result.exc = alone[first].st

\* keywords and initialize_with_git both fail, and keywords is written last.
C5_Witness ==
    /\ pc = "prompt"
    /\ result.stage = "items"
    /\ LastInvoked = KEYWORDS_KEY
    /\ result.line = KeyLineIn(verified, KEYWORDS_KEY)
    /\ KeyLineIn(verified, INITIALIZE_WITH_GIT_KEY) < KeyLineIn(verified, KEYWORDS_KEY)
    /\ InitializeWithGit_verify(Document).st = "VerificationError"

ConditionalKeys ==
    {PLUGIN_NAME_SPACE_KEY, ENTRY_POINT_NAME_KEY, ENTRY_POINT_SOURCE_KEY,
     ENTRY_POINT_SOURCE_DESCRIPTION_KEY, ENTRY_POINT_FUNCTION_KEY}

\* Whether the rule of a conditional key applies to the document.
Applies(key, config) ==
    CASE key = PLUGIN_NAME_SPACE_KEY -> ProjectTypeIs(config, PLUGIN)
      [] key = ENTRY_POINT_FUNCTION_KEY -> ProjectTypeIs(config, CONSOLE_APP)
      [] OTHER -> ~ProjectTypeIs(config, PACKAGE)

\* C6: a conditional rule that does not apply is never the rule that fails and
\* leaves its key as it was read; a package (project_type 0) whose
\* unconditional fields are valid is valid whatever its conditional fields hold.
C6_InapplicableRulesSkip ==
    (Verified /\ ReachedRules) =>
        \E doc \in {Document} :
            /\ (~result.valid /\ LastInvoked \in ConditionalKeys) => Applies(LastInvoked, doc)
            /\ result.valid =>
                 \A key \in ConditionalKeys :
                    ~Applies(key, doc) =>
                       /\ HasKey(result.value, key) = HasKey(doc, key)
                       /\ HasKey(doc, key) => GetItem(result.value, key) = GetItem(doc, key)
            /\ ( /\ \A key \in DeclaredKeys \ ConditionalKeys : item_verify(key, doc).st = "ok"
                 /\ ProjectTypeIs(doc, PACKAGE) ) => result.valid

\* A package without the plugin_name_space key is valid.
C6_Witness ==
    /\ pc = "returned"
    /\ result.valid
    /\ ProjectTypeIs(ret, PACKAGE)
    /\ ~HasKey(ret, PLUGIN_NAME_SPACE_KEY)

\* The fields before plugin_name_space are valid and say the project is a plugin.
PluginDocument ==
    /\ Verified
    /\ ReachedRules
    /\ \E alone \in {RulesAlone(Document, 6)} : \A i \in 1..6 : alone[i].st = "ok"
    /\ ProjectTypeIs(Document, PLUGIN)

\* C7: a plugin (project_type 1) whose plugin_name_space is missing or null
\* gets an Error at the plugin_name_space field's line, never a Result and
\* never an exception.
C7_PluginNameSpaceRequired ==
    (PluginDocument /\ (HasKey(Document, PLUGIN_NAME_SPACE_KEY)
                          => GetItem(Document, PLUGIN_NAME_SPACE_KEY).t = "null")) =>
        /\ ~result.valid
        /\ result.exc = ""
        /\ LastInvoked = PLUGIN_NAME_SPACE_KEY
        /\ HasKey(Document, PLUGIN_NAME_SPACE_KEY)
             => result.line = KeyLineIn(verified, PLUGIN_NAME_SPACE_KEY)

\* The ways initialize_with_git is written as one token.
BoolTokens ==
    { w.tok : w \in { a \in BoolAlts : Len(a.items) = 0 /\ Strip(a.tok.s) = a.tok.s } }

\* The valid documents of each project type with initialize_with_git rewritten.
BoolDocuments ==
    { [text |-> FormText(Rewritten(BaseForm(pt), INITIALIZE_WITH_GIT_KEY, Scalar(tok))), tok |-> tok] :
        <<pt, tok>> \in ProjectTypes \X BoolTokens }

\* What the table says of a token: "true", "false" or "error".
Coercion(tok) ==
    LET tag == TagOf(tok)
    IN  IF tag = "bool" THEN (IF Lower(tok.s) \in {"yes", "true", "on"} THEN "true" ELSE "false")
        ELSE IF tag = "int"
          THEN (IF YamlIntOf(tok.s) = 1 THEN "true"
                ELSE IF YamlIntOf(tok.s) = 0 THEN "false" ELSE "error")
        ELSE IF tag = "str"
          THEN (IF Lower(tok.s) \in TrueWords THEN "true"
                ELSE IF Lower(tok.s) \in FalseWords THEN "false" ELSE "error")
        ELSE "error"

\* C8: initialize_with_git written as a true word, 1 or a native true is
\* normalized to true, written as a false word, 0 or a native false to false,
\* and any other token is an Error at the value's line.
C8_BoolCoercion ==
    \A d \in BoolDocuments :
        (Verified /\ verified = d.text) =>
            IF Coercion(d.tok) = "error"
              THEN /\ ~result.valid
                   /\ result.exc = ""
                   /\ result.line = KeyLineIn(verified, INITIALIZE_WITH_GIT_KEY)
            ELSE /\ result.valid
                 /\ GetItem(result.value, INITIALIZE_WITH_GIT_KEY).t = "bool"
                 /\ GetItem(result.value, INITIALIZE_WITH_GIT_KEY).b = (Coercion(d.tok) = "true")

\* Lexicographic order of tuples of integers, as Python compares them.
RECURSIVE TupleLeq(_, _)
TupleLeq(a, b) ==
    IF Len(a) = 0 THEN TRUE
    ELSE IF Len(b) = 0 THEN FALSE
    ELSE IF a[1] # b[1] THEN a[1] < b[1]
    ELSE TupleLeq(Tail(a), Tail(b))

\* C9: in a valid outcome the interpreters are in non-decreasing order of
\* Interpreters.sorter, the numeric tuple of the dotted components, and are
\* the ones that were written.
C9_InterpretersSorted ==
    result.valid =>
        LET sorted == GetItem(result.value, INTERPRETERS_KEY).items
            written == GetItem(Document, INTERPRETERS_KEY).items
        IN  /\ \A i \in 1..(Len(sorted) - 1) :
                  TupleLeq(Interpreters_sorter(sorted[i].s), Interpreters_sorter(sorted[i + 1].s))
            /\ { sorted[i].s : i \in 1..Len(sorted) } = { sanitize(written[i].s) : i \in 1..Len(written) }

\* The rendered template went through Config.verify as it was written.
TemplateVerified == Verified /\ verified = ProjectConfig_render

ListKeys == {CLASSIFIERS_KEY, INTERPRETERS_KEY, KEYWORDS_KEY, PLATFORMS_KEY, REQUIREMENTS_KEY}

\* Whether the rule of a list field accepts the sanitized element s.
ElementAccepted(key, s) ==
    CASE key = CLASSIFIERS_KEY ->
           \E i \in 1..Len(LoadedClassifiers) : ~IsLicense(LoadedClassifiers[i]) /\ LoadedClassifiers[i] = s
      [] key = INTERPRETERS_KEY -> Match("PYVER_RE", s)
      [] key = KEYWORDS_KEY -> Match("KWORD_RE", s)
      [] OTHER -> Match("WORD_RE", s)

\* The lines of the elements written one per line below the key.
ElementLines(text, key) ==
    { j \in BodyOf(text, KeyLineIn(text, key)) : text[j].k = "item" }

\* The line of the first element of the field that is a string its rule
\* rejects, every element above it being a string the rule accepts.
MalformedElementLines(text, key) ==
    { j \in ElementLines(text, key) :
        /\ TagOf(text[j].tok) = "str"
        /\ ~ElementAccepted(key, sanitize(text[j].tok.s))
        /\ \A e \in ElementLines(text, key) :
              e < j => TagOf(text[e].tok) = "str" /\ ElementAccepted(key, sanitize(text[e].tok.s)) }

\* C11: when the rules before a list field pass and the first malformed
\* element of the field is written on line L, Config.verify returns that
\* field's Error with line L: not the key's line, not the document's last.
C11_ElementLine ==
    (Verified /\ ReachedRules) =>
        \E doc \in {Document} : \E alone \in {RulesAlone(doc, 5)} :
            \A n \in 1..5 :
                LET key == ProjectConfig_items[n]
                IN  (HasKey(doc, key) /\ \A i \in 1..(n - 1) : alone[i].st = "ok") =>
                       \A L \in MalformedElementLines(verified, key) :
                           /\ ~result.valid
                           /\ result.exc = ""
                           /\ LastInvoked = key
                           /\ result.line = L
                           /\ L # KeyLineIn(verified, key)
                           /\ L # Len(verified)

\* The second element of a list is the malformed one.
C11_Witness ==
    /\ pc = "prompt"
    /\ result.stage = "items"
    /\ LastInvoked \in ListKeys
    /\ HasKey(Document, LastInvoked)
    /\ result.line \in MalformedElementLines(verified, LastInvoked)
    /\ result.line > KeyLineIn(verified, LastInvoked) + 1

\* C12: whenever the editor process exits, with whatever exit code, the loop
\* goes on to verify the file: the exit neither ends the loop nor raises.
C12_VerifyAfterEditor == [][pc = "edit" => pc' = "verify" /\ raised' = ""]_vars

\* The arguments of the registry's template that hold the line placeholder.
LineTokens == {i \in 1..Len(editor_args) : Contains(editor_args[i], LINE_ARG)}

\* C13: every editor invocation gets the file path among its arguments, also
\* when the only token written with the path placeholder holds the line
\* placeholder too; no argument keeps a placeholder; the arguments made from
\* tokens with the line placeholder are all there, with the line in them, when
\* the line is at least 0, and are all left out when it is negative.
C13_EditorArguments ==
    [][nEdit' = nEdit + 1 =>
         /\ \E j \in 1..Len(argv') : Contains(argv'[j], FPath)
         /\ \A j \in 1..Len(argv') : ~Contains(argv'[j], NAME_ARG) /\ ~Contains(argv'[j], LINE_ARG)
         /\ IF at_line' >= 0
              THEN /\ Len(argv') = Len(editor_args)
                   /\ \A i \in LineTokens : Contains(argv'[i], IntStr(at_line'))
            ELSE /\ Len(argv') = Len(editor_args) - Cardinality(LineTokens)
                 /\ \A j \in 1..Len(argv') : \E i \in (1..Len(editor_args)) \ LineTokens :
                        argv'[j] = ReplaceFrom(editor_args[i], 1, NAME_ARG, FPath)]_vars

\* The editor has run without a line on a template whose path placeholder
\* shares its token with the line placeholder, and got the path nevertheless.
C13_Witness ==
    /\ nEdit = 1
    /\ raised = ""
    /\ at_line < 0
    /\ \E i \in LineTokens : Contains(editor_args[i], NAME_ARG)
    /\ \E j \in 1..Len(argv) : argv[j] = FPath

\* C14: the loop's first editor invocation is at line -1; each later one is at
\* the line of the Error the verification just before it returned, whatever
\* the errors before that one were.  At line -1 the arguments with the line
\* placeholder are left out, otherwise they carry the line, which is never 0.
C14_EditAtLatestErrorLine ==
    [][nEdit' = nEdit + 1 =>
         /\ at_line = (IF nEdit = 0 THEN NoLine ELSE result.line)
         /\ nEdit > 0 => ~result.valid /\ result.exc = "" /\ result = Config_verify(verified)
         /\ at_line # 0
         /\ IF at_line = NoLine
              THEN Len(argv') = Len(editor_args) - Cardinality(LineTokens)
            ELSE /\ at_line > 0
                 /\ Len(argv') = Len(editor_args)
                 /\ \A i \in LineTokens :
                        argv'[i] = ReplaceFrom(editor_args[i], 1, LINE_ARG, IntStr(at_line))]_vars

\* The editor has been invoked a third time, after two Errors of which the
\* latest has no line, and got no line argument.
C14_Witness ==
    /\ nEdit = 3
    /\ nInvalid = 2
    /\ at_line = NoLine
    /\ Len(argv) = 1
    /\ LineTokens # {}

\* C15: once read_config has been left, by returning or by an exception or
\* exit passing through it, its temporary directory and the file in it are
\* gone; they exist only while the loop is at work.
C15_TemporaryFilesRemoved ==
    /\ pc \in {"configure", "done"} => ~tmpdir /\ file = NoFile
    /\ tmpdir => pc \in {"edit", "verify", "prompt", "returned"}
    /\ raised # "" => pc = "done"

\* The operator aborted at the prompt, after the file had been edited and
\* found invalid, and the directory is gone.
C15_Witness ==
    /\ raised = "Abort"
    /\ nEdit > 0
    /\ verified # NoFile
    /\ ~tmpdir
    /\ file = NoFile

\* C16: a registry without items or without an editor ends the process through
\* error(): rendering, checking the keys and editing go no further, the
\* "Continue in editing?" prompt is not shown and no Error comes back.
C16_RegistryErrorsAreFatal ==
    /\ pc \in {"edit", "verify", "prompt", "returned", "configure"} => items_set
    /\ pc \in {"verify", "prompt", "returned", "configure"} \/ nEdit > 0 \/ nPrompt > 0 =>
          editor # "" /\ raised # "SystemExit"
    /\ Verified /\ ~items_set =>
          result.stage = "load" \/ (result.exc = "SystemExit" /\ raised = "SystemExit")
    /\ Verified /\ result.exc = "" /\ result.stage # "load" => items_set
    /\ raised = "SystemExit" =>
          /\ ~items_set \/ editor = ""
          /\ pc = "done"
          /\ nPrompt = 0 /\ answer = ""
          /\ nInvalid = 0
          /\ result.detail = "" /\ ~result.valid
          /\ ret = PyNone

\* verify has been called on a document that parses, on a registry without
\* items, and the process has exited.
C16_Witness ==
    /\ raised = "SystemExit"
    /\ ~items_set
    /\ Verified
    /\ result.stage = "keys"

\* C17: Config.verify gives a document that does not parse and a document
\* that breaks a rule the same outcome, an Error with no value, a line and a
\* detail, and gives a valid document a Result with the document and no
\* error; the line of a parse failure is the parser's problem line plus one,
\* or -1 without a position; the loop goes to the prompt on either Error and
\* from there retries at the Error's line or returns None.
C17_OneErrorShape ==
    [][/\ pc = "verify" /\ raised' = "" =>
            /\ Verified'
            /\ result'.exc = ""
            /\ IF result'.valid
                 THEN /\ result'.value # PyNone /\ result'.value = ret'
                      /\ result'.detail = "" /\ result'.line = NoLine
                      /\ pc' = "returned"
               ELSE /\ result'.value = PyNone
                    /\ result'.detail # ""
                    /\ result'.line = NoLine \/ result'.line >= 1
                    /\ pc' = "prompt" /\ nInvalid' = nInvalid + 1 /\ nPrompt' = nPrompt
            /\ result'.stage = "load" =>
                  result'.line = (IF \E j \in 1..Len(file) : file[j].k = "ctrl" THEN NoLine
                                  ELSE SetMin(SyntaxErrorLines(file)))
       /\ pc = "prompt" /\ raised' = "" =>
            /\ nPrompt' = nPrompt + 1
            /\ \/ answer' = "y" /\ pc' = "edit" /\ at_line' = result.line
               \/ answer' = "n" /\ pc' = "returned" /\ ret' = PyNone]_vars

\* The loop is at the prompt for the second time, now with the Error of a
\* document that did not parse, located at a line.
C17_Witness ==
    /\ pc = "prompt"
    /\ nInvalid = 2
    /\ nPrompt = 1
    /\ result.stage = "load"
    /\ result.line >= 1
    /\ result.value = PyNone

\* The type the rule of a field asks of its value.
ExpectedType(key) ==
    IF key \in ListKeys THEN "list" ELSE IF key = PROJECT_TYPE_KEY THEN "int" ELSE "str"

\* The line where the value of the key is written: the key's line, or the
\* first line of the body when the value starts below the key.
ValueLineIn(text, key) ==
    LET k == KeyLineIn(text, key)
    IN  IF text[k].tok # NoTok \/ BodyOf(text, k) = {} THEN k ELSE SetMin(BodyOf(text, k))

\* C18: when the rules before a field pass, the field's rule applies and the
\* value is not of the type the rule asks for (list, int for project_type, str),
\* Config.verify returns an Error at the line where that value is written,
\* be it the key's line or a line below it, with a message naming the type.
C18_TypeMismatchAtValueLine ==
    (Verified /\ ReachedRules) =>
        \E doc \in {Document} : \E alone \in {RulesAlone(doc, Len(ProjectConfig_items) - 1)} :
            \A n \in 1..(Len(ProjectConfig_items) - 1) :
                LET key == ProjectConfig_items[n]
                IN  ( /\ HasKey(doc, key)
                      /\ \A i \in 1..(n - 1) : alone[i].st = "ok"
                      /\ key \in ConditionalKeys => Applies(key, doc)
                      /\ ~IsInstance(GetItem(doc, key), ExpectedType(key)) ) =>
                       /\ ~result.valid
                       /\ result.exc = ""
                       /\ LastInvoked = key
                       /\ Contains(result.detail, "expected " \o ExpectedType(key))
                       /\ result.line = ValueLineIn(verified, key)

====
